---- MODULE Spec2Model ----
(***************************************************************************)
(* The agent drivers of agentic_appsec and the HTTP probe tool.            *)
(*                                                                         *)
(* Three scripts build the same executor,                                  *)
(*     AgentExecutor(agent=create_react_agent(llm, tools, prompt),         *)
(*                   tools=tools, verbose=True, handle_parsing_errors=True)*)
(* and call it from analyze_code / analyze_code_with_langgraph.  The loop  *)
(* the executor runs is the library's; it is modelled here as the library  *)
(* runs it under exactly the options the scripts pass (every option the    *)
(* scripts leave out keeps the library's default: max_iterations,          *)
(* early_stopping_method = "force", return_intermediate_steps = False,     *)
(* and no handle_tool_error on any tool).                                  *)
(*                                                                         *)
(* Texts are sequences of tokens, so that rendering, formatting and        *)
(* parsing are computed and not assumed.                                   *)
(***************************************************************************)
EXTENDS Integers, Sequences, FiniteSets, TLC

VARIABLES
    script,             \* which driver script runs
    langgraph,          \* whether "from langgraph.graph import ..." succeeds
    pc,                 \* position of the script's top-level code
    task,               \* 0: none yet, 1: analyze_code, 2: analyze_code_with_langgraph
    lstate,             \* state of the executor's loop for the current task
    iterations,         \* AgentExecutor._call's counter
    intermediate_steps, \* AgentExecutor._call's list of (action, observation)
    pending,            \* the parsed action whose tool is running (<<>>: none)
    finish,             \* the return values the loop ended with (<<>>: none yet)
    last_prompt,        \* the prompt rendered for the latest completion request
    llm_output,         \* the latest completion of the current run (<<>>: none yet)
    llm_calls,          \* completions requested in the current run
    tool_runs,          \* registered tools' _run calls started in the current run
    in_progress,        \* registered tools' _run calls started and not yet ended
    started,            \* the runs started so far, in order
    responses,          \* what the entry points returned so far, in order
    run_input,          \* the input the current run of the loop was invoked with
    graph_state,        \* langgraph_app.invoke: the graph's state (input, output)
    graph_visits,       \* langgraph_app.invoke: the nodes entered, in order
    h_pc,               \* HttpTool._run: position
    h_calls,            \* HttpTool._run: calls made so far
    h_args,             \* HttpTool._run: its arguments
    h_net,              \* what the network does with the request
    h_requests,         \* the outbound requests issued, in order
    h_result            \* HttpTool._run: what it returned or raised

loopVars == <<lstate, iterations, intermediate_steps, pending, finish, last_prompt,
              llm_output,
              llm_calls, tool_runs, in_progress>>
progVars == <<script, langgraph, pc, task, started, responses>>
graphVars == <<run_input, graph_state, graph_visits>>
httpVars == <<h_pc, h_calls, h_args, h_net, h_requests, h_result>>
vars == <<script, langgraph, pc, task, lstate, iterations, intermediate_steps,
          pending, finish, last_prompt, llm_output, llm_calls, tool_runs, in_progress, started,
          responses, run_input, graph_state, graph_visits,
          h_pc, h_calls, h_args, h_net, h_requests, h_result>>

(***************************************************************************)
(* Bounds                                                                  *)
(***************************************************************************)

\* The executor's cap on loop iterations.  No script sets max_iterations, so
\* the library's default applies; the model runs the same loop under a small cap.
max_iterations == 3

\* how many times HttpTool._run is called in one behaviour
MaxCalls == 2

(***************************************************************************)
(* The scripts' module-level configuration                                 *)
(***************************************************************************)

Scripts == {"recon", "langgraph_react_ssrf", "agentic_basic"}

\* tools = [...]
FileTools ==
    <<"ViewFileTool", "ViewFileLinesTool", "DirectoryListingTool",
      "FileListingTool", "DirectoryStructureTool">>

tools(s) ==
    IF s = "agentic_basic" THEN <<"custom_search">> ELSE FileTools

\* the description attribute of a file tool
FileToolDescription(t) == "description of " \o t

\* description of a tool, as the prompt shows it
Description(t) ==
    IF t = "custom_search"
    THEN "Useful for when you need to answer questions about code"
    ELSE FileToolDescription(t)

\* instructions = """...""": the template as literal text and {placeholders}
instructions(s) ==
    CASE s = "recon" ->
           <<[kind |-> "lit", text |-> "You are an expert security analyst ..."]>>
      [] s = "langgraph_react_ssrf" ->
           <<[kind |-> "lit", text |-> "You are an agent designed to analyze Python/Django code ..."],
             [kind |-> "var", text |-> "tools"],
             [kind |-> "lit", text |-> "To use a tool, please use the following format: ... one of"],
             [kind |-> "var", text |-> "tool_names"],
             [kind |-> "lit", text |-> "... Your final response must be in JSON format ... New input:"],
             [kind |-> "var", text |-> "input"],
             [kind |-> "var", text |-> "agent_scratchpad"]>>
      [] OTHER ->
           <<[kind |-> "lit", text |-> "You are an agent designed to analyze Python code for ... SSRF ..."],
             [kind |-> "var", text |-> "tools"],
             [kind |-> "lit", text |-> "You must use the tool. ... one of"],
             [kind |-> "var", text |-> "tool_names"],
             [kind |-> "lit", text |-> "... Your Final Answer should be in JSON format ... New input:"],
             [kind |-> "var", text |-> "input"],
             [kind |-> "var", text |-> "agent_scratchpad"]>>

input_variables(tpl) ==
    {tpl[i].text : i \in {j \in DOMAIN tpl : tpl[j].kind = "var"}}

\* analysis_task / input_code of the script's __main__
analysis_task(s) ==
    CASE s = "recon" -> "Analyze the Node.js, Express and Angular code in ./repo/ ..."
      [] s = "langgraph_react_ssrf" -> "Analyze the Python/Django code in ./repo/ ..."
      [] OTHER -> "def update_user_active(request): ..."

\* The names the module's top-level code uses resolve: agentic_basic uses
\* ChatPromptTemplate and FewShotChatMessagePromptTemplate and imports neither.
NamesResolve(s) == s # "agentic_basic"

\* create_react_agent(llm, tools, prompt): refuses a prompt without the
\* variables it fills in on every iteration
RequiredVars == {"tools", "tool_names", "agent_scratchpad"}

PromptAccepted(s) == RequiredVars \subseteq input_variables(instructions(s))

create_react_agent(s) == NamesResolve(s) /\ PromptAccepted(s)

(***************************************************************************)
(* Texts                                                                   *)
(***************************************************************************)

RECURSIVE Concat(_)
\* the texts of a sequence of texts, joined
Concat(ss) == IF ss = <<>> THEN <<>> ELSE Head(ss) \o Concat(Tail(ss))

\* a completion is a sequence of lines [tag, val]; as text each line is its
\* tag followed by its value
LineText(l) == <<l.tag \o ":", l.val>>

TextOf(lines) == Concat([i \in DOMAIN lines |-> LineText(lines[i])])

(***************************************************************************)
(* The model endpoint: the completions it may produce                      *)
(***************************************************************************)

NoSuchTool == "no_such_tool"

ToolInputs == {"./repo/"}

FinalTexts == {"SQL-files: a.py, SQLi-files: a.py"}

\* tool names a completion may name: two registered ones and one that is not
NamedTools(s) ==
    {tools(s)[i] : i \in {j \in DOMAIN tools(s) : j <= 2}} \cup {NoSuchTool}

Thought == [tag |-> "Thought", val |-> "Do I need to use a tool?"]

Completions(s) ==
    \* an action directive
    {<<Thought, [tag |-> "Action", val |-> t], [tag |-> "Action Input", val |-> i]>> :
        t \in NamedTools(s), i \in ToolInputs}
    \* a final-answer directive
    \cup {<<Thought, [tag |-> "Final Answer", val |-> f]>> : f \in FinalTexts}
    \* neither: no directive, an action without its input, an action and a final answer
    \cup {<<Thought>>}
    \cup {<<Thought, [tag |-> "Action", val |-> tools(s)[1]]>>}
    \cup {<<Thought, [tag |-> "Action", val |-> tools(s)[1]],
            [tag |-> "Action Input", val |-> i],
            [tag |-> "Final Answer", val |-> f]>> : i \in ToolInputs, f \in FinalTexts}

(***************************************************************************)
(* The agent: the ReAct output parser create_react_agent installs          *)
(***************************************************************************)

HasTag(text, tag) == \E i \in DOMAIN text : text[i].tag = tag

\* the first "Action: ... Action Input: ..." of the text (0: none)
ActionAt(text) ==
    LET hits == {i \in DOMAIN text :
                    /\ text[i].tag = "Action"
                    /\ i + 1 \in DOMAIN text
                    /\ text[i + 1].tag = "Action Input"}
    IN  IF hits = {} THEN 0 ELSE CHOOSE i \in hits : \A j \in hits : i <= j

\* text.split("Final Answer:")[-1]: what follows the last "Final Answer:"
FinalAt(text) ==
    CHOOSE i \in DOMAIN text :
        /\ text[i].tag = "Final Answer"
        /\ \A j \in DOMAIN text : text[j].tag = "Final Answer" => j <= i

\* The parser's result: an action, a finish, or an OutputParserException
\* (with the observation it carries when it is marked send_to_llm).
parse(text) ==
    LET a == ActionAt(text)
        none == [kind |-> "error", tool |-> "", tool_input |-> "",
                 output |-> <<>>, send_to_llm |-> TRUE, observation |-> <<>>]
    IN  IF a # 0
        THEN IF HasTag(text, "Final Answer")
             THEN [none EXCEPT !.send_to_llm = FALSE]
             ELSE [none EXCEPT !.kind = "action", !.tool = text[a].val,
                               !.tool_input = text[a + 1].val]
        ELSE IF HasTag(text, "Final Answer")
             THEN [none EXCEPT !.kind = "finish",
                               !.output = <<text[FinalAt(text)].val>>]
             ELSE IF ~HasTag(text, "Action")
                  THEN [none EXCEPT !.observation =
                           <<"Invalid Format: Missing 'Action:' after 'Thought:'">>]
                  ELSE [none EXCEPT !.observation =
                           <<"Invalid Format: Missing 'Action Input:' after 'Action:'">>]

(***************************************************************************)
(* The prompt of one iteration                                             *)
(***************************************************************************)

\* the scratchpad: every step's log, then its observation
StepText(step) ==
    step.log \o <<"Observation:">> \o step.observation \o <<"Thought:">>

\* (variant: a scratchpad that keeps only the latest step)
format_log_to_str_latest(steps) ==
    IF steps = <<>> THEN <<>> ELSE StepText(steps[Len(steps)])

format_log_to_str(steps) ==
    Concat([i \in DOMAIN steps |-> StepText(steps[i])])

\* "name: description" of every tool
render_text_description(ts) ==
    Concat([i \in DOMAIN ts |-> <<ts[i] \o ":", Description(ts[i])>>])

\* the template with its variables filled in
format(tpl, ts, inp, steps) ==
    [i \in DOMAIN tpl |->
        IF tpl[i].kind = "lit" THEN [kind |-> "lit", text |-> <<tpl[i].text>>]
        ELSE [kind |-> tpl[i].text,
              text |-> CASE tpl[i].text = "tools" -> render_text_description(ts)
                         [] tpl[i].text = "tool_names" -> ts
                         [] tpl[i].text = "input" -> <<inp>>
                         [] OTHER -> format_log_to_str(steps)]]

(***************************************************************************)
(* The tools                                                               *)
(***************************************************************************)

\* What tool.run(tool_input) can do: return a text, or raise.

\* CustomSearchTool._run: FAISS.load_local raises when the index directory is
\* missing or corrupt; otherwise the similarity search's result is returned.
\* Nothing in _run catches.
CustomSearchTool_run(query) ==
    {[raised |-> FALSE, text |-> <<"similarity_search", query>>],
     [raised |-> TRUE, text |-> <<"RuntimeError: could not open index">>]}

\* The file and directory tools: an execution function from an input to a text
\* or a signalled failure (a path that does not exist, a line range outside
\* the file, an input that does not fit the tool's schema).
FileTool_run(t, i) ==
    {[raised |-> FALSE, text |-> <<"output of", t, i>>],
     [raised |-> TRUE, text |-> <<"error in", t>>]}

ToolOutcomes(t, i) ==
    IF t = "custom_search" THEN CustomSearchTool_run(i) ELSE FileTool_run(t, i)

\* InvalidTool: what the executor answers to a name it has not registered
InvalidToolObservation(requested, ts) ==
    <<requested, "is not a valid tool, try one of">> \o ts

(***************************************************************************)
(* The executor, as the scripts configure it                               *)
(***************************************************************************)

\* (variant: the executor built without handle_parsing_errors)
handle_parsing_errors_unset == FALSE

\* AgentExecutor(..., handle_parsing_errors=True)
handle_parsing_errors == TRUE

\* AgentExecutor(...) is built without return_intermediate_steps, and the
\* return_intermediate_steps=True the callers pass to invoke() is a keyword
\* invoke() does not read: the executor's own field decides.
return_intermediate_steps == FALSE

\* what iteration-limit stopping returns (early_stopping_method "force")
StoppedOutput == <<"Agent stopped due to iteration limit or time limit.">>

\* (variant: dispatch that takes any named tool as registered)
Registered_AnyName(s) == {tools(s)[i] : i \in DOMAIN tools(s)} \cup {NoSuchTool}

\* name_to_tool_map = {tool.name: tool for tool in self.tools}
Registered(s) == {tools(s)[i] : i \in DOMAIN tools(s)}

\* AgentExecutor._should_continue
should_continue(n) == n < max_iterations

\* AgentExecutor._return followed by Chain.prep_outputs: {**inputs, **outputs}
return_(inp, out, steps) ==
    [keys |-> {"input", "output"} \cup
              (IF return_intermediate_steps THEN {"intermediate_steps"} ELSE {}),
     input |-> inp,
     output |-> out,
     intermediate_steps |-> IF return_intermediate_steps THEN steps ELSE <<>>]

Step(tool, tool_input, log, observation) ==
    [tool |-> tool, tool_input |-> tool_input, log |-> log,
     observation |-> observation]

Running == lstate \in {"AWAITING_COMPLETION", "EXECUTING_TOOL"}

\* agent.plan(): render the prompt from the steps so far and ask for a completion
Plan(text) ==
    /\ lstate = "AWAITING_COMPLETION"
    /\ should_continue(iterations)
    /\ llm_output' = text
    /\ last_prompt' = format(instructions(script), tools(script),
                             run_input, intermediate_steps)
    /\ llm_calls' = llm_calls + 1

\* the completion is a final answer: the loop returns
AgentFinishes ==
    /\ \E text \in Completions(script) :
          /\ Plan(text)
          /\ parse(text).kind = "finish"
          /\ finish' = parse(text).output
    /\ lstate' = "DONE"
    /\ UNCHANGED <<iterations, intermediate_steps, pending, tool_runs, in_progress>>
    /\ UNCHANGED <<progVars, graphVars, httpVars>>

\* the completion names a registered tool: tool.run() starts
AgentActs ==
    /\ \E text \in Completions(script) :
          /\ Plan(text)
          /\ parse(text).kind = "action"
          /\ parse(text).tool \in Registered(script)
          /\ pending' = <<[tool |-> parse(text).tool,
                           tool_input |-> parse(text).tool_input,
                           log |-> TextOf(text)]>>
    /\ lstate' = "EXECUTING_TOOL"
    /\ tool_runs' = tool_runs + 1
    /\ in_progress' = in_progress + 1
    /\ UNCHANGED <<iterations, intermediate_steps, finish>>
    /\ UNCHANGED <<progVars, graphVars, httpVars>>

\* the completion names a tool that is not registered: InvalidTool answers
InvalidToolNamed ==
    /\ \E text \in Completions(script) :
          /\ Plan(text)
          /\ parse(text).kind = "action"
          /\ parse(text).tool \notin Registered(script)
          /\ intermediate_steps' = Append(intermediate_steps,
                Step(parse(text).tool, parse(text).tool_input, TextOf(text),
                     InvalidToolObservation(parse(text).tool, tools(script))))
    /\ iterations' = iterations + 1
    /\ UNCHANGED <<lstate, pending, finish, tool_runs, in_progress>>
    /\ UNCHANGED <<progVars, graphVars, httpVars>>

\* handle_parsing_errors=True: what the step of a rejected completion holds.
\* An exception marked send_to_llm gives its own observation and the raw
\* completion as the log; any other gives a fixed observation and its message
\* (which quotes the raw completion) as the log.
ErrorObservation(text) ==
    IF parse(text).send_to_llm THEN parse(text).observation
    ELSE <<"Invalid or incomplete response">>

ErrorLog(text) ==
    IF parse(text).send_to_llm THEN TextOf(text)
    ELSE <<"Parsing LLM output produced both a final answer and a parse-able action:">>
         \o TextOf(text)

\* the completion is neither: OutputParserException, handled or raised
ParsingError ==
    /\ \E text \in Completions(script) :
          /\ Plan(text)
          /\ parse(text).kind = "error"
          /\ IF handle_parsing_errors
             THEN /\ intermediate_steps' = Append(intermediate_steps,
                        Step("_Exception", "", ErrorLog(text), ErrorObservation(text)))
                  /\ iterations' = iterations + 1
                  /\ UNCHANGED <<lstate, pc>>
             ELSE /\ lstate' = "CRASHED"
                  /\ pc' = "crashed"
                  /\ UNCHANGED <<intermediate_steps, iterations>>
    /\ UNCHANGED <<pending, finish, tool_runs, in_progress>>
    /\ UNCHANGED <<script, langgraph, task, started, responses, graphVars, httpVars>>

\* the running tool returns: its text is the step's observation
ToolReturns ==
    /\ lstate = "EXECUTING_TOOL"
    /\ \E o \in ToolOutcomes(pending[1].tool, pending[1].tool_input) :
          /\ ~o.raised
          /\ intermediate_steps' = Append(intermediate_steps,
                Step(pending[1].tool, pending[1].tool_input, pending[1].log, o.text))
    /\ iterations' = iterations + 1
    /\ lstate' = "AWAITING_COMPLETION"
    /\ pending' = <<>>
    /\ in_progress' = in_progress - 1
    /\ UNCHANGED <<finish, last_prompt, llm_output, llm_calls, tool_runs>>
    /\ UNCHANGED <<progVars, graphVars, httpVars>>

\* the running tool raises: no tool sets handle_tool_error and none raises a
\* ToolException, so tool.run() re-raises and nothing on the way up catches it
ToolRaises ==
    /\ lstate = "EXECUTING_TOOL"
    /\ \E o \in ToolOutcomes(pending[1].tool, pending[1].tool_input) : o.raised
    /\ lstate' = "CRASHED"
    /\ pc' = "crashed"
    /\ pending' = <<>>
    /\ in_progress' = in_progress - 1
    /\ UNCHANGED <<iterations, intermediate_steps, finish, last_prompt, llm_output,
                   llm_calls, tool_runs>>
    /\ UNCHANGED <<script, langgraph, task, started, responses, graphVars, httpVars>>

\* the while condition fails: return_stopped_response
IterationLimit ==
    /\ lstate = "AWAITING_COMPLETION"
    /\ ~should_continue(iterations)
    /\ lstate' = "FAILED"
    /\ finish' = StoppedOutput
    /\ UNCHANGED <<iterations, intermediate_steps, pending, last_prompt, llm_output,
                   llm_calls, tool_runs, in_progress>>
    /\ UNCHANGED <<progVars, graphVars, httpVars>>

(***************************************************************************)
(* The scripts' top-level code and entry points                            *)
(***************************************************************************)

\* agent_executor.invoke(): a fresh run of the loop
Invoke(inp) ==
    /\ run_input' = inp
    /\ lstate' = "AWAITING_COMPLETION"
    /\ iterations' = 0
    /\ intermediate_steps' = <<>>
    /\ pending' = <<>>
    /\ finish' = <<>>
    /\ llm_output' = <<>>
    /\ llm_calls' = 0
    /\ tool_runs' = 0
    /\ UNCHANGED <<last_prompt, in_progress>>

\* the module's top-level statements down to agent_executor = AgentExecutor(...)
LoadModule ==
    /\ pc = "load"
    /\ pc' = IF create_react_agent(script) THEN "main" ELSE "config_error"
    /\ UNCHANGED <<script, langgraph, task, started, responses>>
    /\ UNCHANGED <<loopVars, graphVars, httpVars>>

\* __main__: result = analyze_code(analysis_task)
CallAnalyzeCode ==
    /\ pc = "main"
    /\ task' = 1
    /\ started' = Append(started, 1)
    /\ pc' = "analyze_code"
    /\ Invoke(analysis_task(script))
    /\ UNCHANGED <<script, langgraph, responses, graph_state, graph_visits, httpVars>>

\* analyze_code returns what invoke() returned
AnalyzeCodeReturns ==
    /\ pc = "analyze_code"
    /\ lstate \in {"DONE", "FAILED"}
    /\ responses' = Append(responses,
          return_(run_input, finish, intermediate_steps))
    /\ pc' = IF task = 1 THEN "main2" ELSE "exit"
    /\ UNCHANGED <<script, langgraph, task, started>>
    /\ UNCHANGED <<loopVars, graphVars, httpVars>>

\* workflow = StateGraph(AgentState); add_node("agent", agent_node);
\* set_entry_point("agent"); add_edge("agent", END)
END == "__end__"

entry_point == "agent"

\* (variant: the node's edge leads back to the node)
add_edge_to_agent(node) == "agent"

add_edge(node) == END

\* agent_node's return value, given the executor's result
agent_node(state, result) == [input |-> state.input, output |-> result.output]

NoGraphState == [input |-> "", output |-> <<>>]

\* (variant: the second entry point called without waiting for the first)
CallAnalyzeCodeWithLanggraph_Early ==
    /\ pc \in {"analyze_code", "main2"}
    /\ task = 1
    /\ task' = 2
    /\ started' = Append(started, 2)
    /\ pc' = IF langgraph THEN "agent_node" ELSE "analyze_code"
    /\ Invoke(analysis_task(script))
    /\ UNCHANGED <<script, langgraph, responses, graph_state, graph_visits, httpVars>>

\* __main__: langgraph_result = analyze_code_with_langgraph(analysis_task).
\* With langgraph, langgraph_app.invoke({"input": input_code}) enters the entry
\* point, whose node invokes the executor with state["input"]; without it the
\* name is bound to a function that calls analyze_code(input_code).
CallAnalyzeCodeWithLanggraph ==
    /\ pc = "main2"
    /\ task' = 2
    /\ started' = Append(started, 2)
    /\ IF langgraph
       THEN /\ graph_state' = [input |-> analysis_task(script), output |-> <<>>]
            /\ graph_visits' = <<entry_point>>
            /\ pc' = "agent_node"
            /\ Invoke(graph_state'.input)
       ELSE /\ pc' = "analyze_code"
            /\ Invoke(analysis_task(script))
            /\ UNCHANGED <<graph_state, graph_visits>>
    /\ UNCHANGED <<script, langgraph, responses, httpVars>>

\* agent_node returns {"input": state["input"], "output": result["output"]};
\* the graph follows the node's edge: at END langgraph_app.invoke returns the
\* state, otherwise the next node is entered
AgentNodeReturns ==
    /\ pc = "agent_node"
    /\ lstate \in {"DONE", "FAILED"}
    /\ LET result == return_(run_input, finish, intermediate_steps)
           state == agent_node(graph_state, result)
           next == add_edge(graph_visits[Len(graph_visits)])
       IN  /\ graph_state' = state
           /\ IF next = END
              THEN /\ responses' = Append(responses,
                         [keys |-> {"input", "output"},
                          input |-> state.input,
                          output |-> state.output,
                          intermediate_steps |-> <<>>])
                   /\ pc' = "exit"
                   /\ UNCHANGED <<started, graph_visits, run_input, loopVars>>
              ELSE /\ graph_visits' = Append(graph_visits, next)
                   /\ started' = Append(started, 2)
                   /\ Invoke(state.input)
                   /\ UNCHANGED <<pc, responses>>
    /\ UNCHANGED <<script, langgraph, task, httpVars>>

(***************************************************************************)
(* HttpTool._run                                                           *)
(***************************************************************************)

LowerLetters ==
    <<"a", "b", "c", "d", "e", "f", "g", "h", "i", "j", "k", "l", "m",
      "n", "o", "p", "q", "r", "s", "t", "u", "v", "w", "x", "y", "z">>

UpperLetters ==
    <<"A", "B", "C", "D", "E", "F", "G", "H", "I", "J", "K", "L", "M",
      "N", "O", "P", "Q", "R", "S", "T", "U", "V", "W", "X", "Y", "Z">>

\* (variant: the method compared as written, without upper())
upper_omitted(str) == str

\* str.upper(), character by character
upper(str) ==
    [i \in DOMAIN str |->
        IF \E k \in DOMAIN LowerLetters : LowerLetters[k] = str[i]
        THEN UpperLetters[CHOOSE k \in DOMAIN LowerLetters : LowerLetters[k] = str[i]]
        ELSE str[i]]

Urls == {"http://localhost:8080/", "http://10.0.0.1/unreachable"}

Methods ==
    {<<"G", "E", "T">>, <<"g", "e", "t">>, <<"P", "O", "S", "T">>,
     <<"p", "o", "s", "t">>, <<"P", "o", "s", "T">>, <<"P", "U", "T">>,
     <<"D", "E", "L", "E", "T", "E">>, <<>>, <<"P", "O", "S", "T", "S">>,
     <<" ", "P", "O", "S", "T">>}

None == "None"

Datas == {None, "k=v"}

\* what the network does with one request: a response, or an error httpx raises
NetOutcomes ==
    {[kind |-> "response", headers |-> "Headers({'content-type': 'text/plain'})",
      body |-> "Hello, world!"],
     [kind |-> "response", headers |-> "Headers({'location': '/next'})", body |-> ""],
     [kind |-> "error", headers |-> "", body |-> ""]}

\* httpx.post(url, data=data) / httpx.get(url): the request put on the wire
post(url, data) ==
    [verb |-> "POST", url |-> url,
     body |-> IF data = None THEN <<>> ELSE <<"form", data>>]

get(url) == [verb |-> "GET", url |-> url, body |-> <<>>]

\* if method.upper() == "POST": ... else: ...
request(args) ==
    IF upper(args.method) = <<"P", "O", "S", "T">>
    THEN post(args.url, args.data)
    ELSE get(args.url)

\* f"Headers:\n{headers}\n\nBody:\n{body}"
result_text(headers, body) == <<"Headers:\n", headers, "\n\nBody:\n", body>>

NoArgs == [url |-> "", method |-> <<>>, data |-> None]
NoNet == [kind |-> "none", headers |-> "", body |-> ""]
NoResult == [raised |-> FALSE, text |-> <<>>]

\* a caller calls _run(url, method, data)
HttpCall ==
    /\ h_pc \in {"idle", "returned", "raised"}
    /\ h_calls < MaxCalls
    /\ \E u \in Urls, m \in Methods, d \in Datas :
          h_args' = [url |-> u, method |-> m, data |-> d]
    /\ h_calls' = h_calls + 1
    /\ h_pc' = "called"
    /\ h_net' = NoNet
    /\ h_result' = NoResult
    /\ UNCHANGED <<h_requests, progVars, loopVars, graphVars>>

\* the request goes out; the network answers or fails
HttpSend ==
    /\ h_pc = "called"
    /\ h_requests' = Append(h_requests, request(h_args))
    /\ \E n \in NetOutcomes : h_net' = n
    /\ h_pc' = "sent"
    /\ UNCHANGED <<h_calls, h_args, h_result, progVars, loopVars, graphVars>>

\* a response came: return the headers and the body as one text
HttpReturns ==
    /\ h_pc = "sent"
    /\ h_net.kind = "response"
    /\ h_result' = [raised |-> FALSE, text |-> result_text(h_net.headers, h_net.body)]
    /\ h_pc' = "returned"
    /\ UNCHANGED <<h_calls, h_args, h_net, h_requests, progVars, loopVars, graphVars>>

\* (variant: a failed request is sent once more)
HttpRaises_Retry ==
    /\ h_pc = "sent"
    /\ h_net.kind = "error"
    /\ h_requests' = Append(h_requests, request(h_args))
    /\ \E n \in NetOutcomes : h_net' = n
    /\ UNCHANGED <<h_pc, h_calls, h_args, h_result, progVars, loopVars, graphVars>>

\* httpx raised: _run has no handler, the error leaves _run
HttpRaises ==
    /\ h_pc = "sent"
    /\ h_net.kind = "error"
    /\ h_result' = [raised |-> TRUE, text |-> <<"httpx.ConnectError">>]
    /\ h_pc' = "raised"
    /\ UNCHANGED <<h_calls, h_args, h_net, h_requests, progVars, loopVars, graphVars>>

(***************************************************************************)
(* Specifications                                                          *)
(***************************************************************************)

NoPrompt == <<>>

LoopIdle ==
    /\ lstate = "IDLE"
    /\ iterations = 0
    /\ intermediate_steps = <<>>
    /\ pending = <<>>
    /\ finish = <<>>
    /\ last_prompt = NoPrompt
    /\ llm_output = <<>>
    /\ llm_calls = 0
    /\ tool_runs = 0
    /\ in_progress = 0

HttpIdle ==
    /\ h_pc = "idle"
    /\ h_calls = 0
    /\ h_args = NoArgs
    /\ h_net = NoNet
    /\ h_requests = <<>>
    /\ h_result = NoResult

\* a script is started
Init ==
    /\ script \in Scripts
    /\ langgraph \in BOOLEAN
    /\ pc = "load"
    /\ task = 0
    /\ started = <<>>
    /\ responses = <<>>
    /\ run_input = ""
    /\ graph_state = NoGraphState
    /\ graph_visits = <<>>
    /\ LoopIdle
    /\ HttpIdle

Next ==
    \/ LoadModule
    \/ CallAnalyzeCode
    \/ AgentFinishes
    \/ AgentActs
    \/ InvalidToolNamed
    \/ ParsingError
    \/ ToolReturns
    \/ ToolRaises
    \/ IterationLimit
    \/ AnalyzeCodeReturns
    \/ CallAnalyzeCodeWithLanggraph
    \/ AgentNodeReturns

Spec == Init /\ [][Next]_vars

\* HttpTool._run called on its own, with any arguments
InitHttp ==
    /\ script = "langgraph_react_ssrf"
    /\ langgraph = TRUE
    /\ pc = "load"
    /\ task = 0
    /\ started = <<>>
    /\ responses = <<>>
    /\ run_input = ""
    /\ graph_state = NoGraphState
    /\ graph_visits = <<>>
    /\ LoopIdle
    /\ HttpIdle

NextHttp ==
    \/ HttpCall
    \/ HttpSend
    \/ HttpReturns
    \/ HttpRaises

SpecHttp == InitHttp /\ [][NextHttp]_vars

(***************************************************************************)
(* Vocabulary of the properties                                            *)
(***************************************************************************)

\* sub occurs in text as a run of consecutive tokens
Contains(text, sub) ==
    \E k \in 0 .. (Len(text) - Len(sub)) :
        \A j \in 1 .. Len(sub) : text[k + j] = sub[j]

IsPrefix(a, b) ==
    /\ Len(a) <= Len(b)
    /\ \A i \in 1 .. Len(a) : a[i] = b[i]

\* the whole prompt as one text
PromptText(prompt) == Concat([i \in DOMAIN prompt |-> prompt[i].text])

\* the tool is one of the running script's tool set
InToolSet(t) == \E i \in DOMAIN tools(script) : tools(script)[i] = t

\* the run's entry point is analyze_code (directly, or as the fallback)
ViaAnalyzeCode == task = 1 \/ (task = 2 /\ ~langgraph)

\* an entry point has just returned; the loop's variables are still its run's
JustReturned == pc \in {"main2", "exit"} /\ Len(responses) = Len(started)

LastResponse == responses[Len(responses)]

\* the latest completion is an action directive naming a tool outside the set
NamesUnknownTool(text) ==
    /\ ActionAt(text) # 0
    /\ ~HasTag(text, "Final Answer")
    /\ ~InToolSet(text[ActionAt(text)].val)

\* the latest completion is neither an action directive nor a final answer
MatchesNeither(text) == text # <<>> /\ parse(text).kind = "error"

\* a completion is requested in this step
CompletionRequested == llm_calls' = llm_calls + 1

(***************************************************************************)
(* C1  When no final answer is ever produced, the loop started by          *)
(* analyze_code stops after at most max_iterations steps and reports a     *)
(* bounded-iteration failure that carries the partial transcript.          *)
(* Stated as the claim has it; the code returns the stop message without   *)
(* the steps (see C7).                                                     *)
(***************************************************************************)
C1_BoundedFailureCarriesTranscript ==
    /\ iterations <= max_iterations
    /\ tool_runs <= max_iterations
    /\ (JustReturned /\ ViaAnalyzeCode /\ lstate = "FAILED") =>
          /\ LastResponse.output = StoppedOutput
          /\ "intermediate_steps" \in LastResponse.keys
          /\ LastResponse.intermediate_steps = intermediate_steps

(***************************************************************************)
(* C2  A fault raised by a registered tool's execution becomes the         *)
(* observation of the current step and never leaves the loop as a crash.   *)
(* Stated as the claim has it; the code lets the fault propagate.          *)
(***************************************************************************)
C2_ToolFaultNeverCrashesLoop ==
    [][lstate = "EXECUTING_TOOL" =>
          /\ lstate' = "AWAITING_COMPLETION"
          /\ pc' # "crashed"
          /\ Len(intermediate_steps') = Len(intermediate_steps) + 1]_vars

(***************************************************************************)
(* C3  An action directive naming a tool outside the active tool set:      *)
(* no tool is executed, the loop does not crash, the step records an       *)
(* observation saying the tool is invalid, and the prompt rendered for the *)
(* next iteration contains that observation.                               *)
(***************************************************************************)
C3_UnknownToolIsObserved ==
    /\ [][(CompletionRequested /\ NamesUnknownTool(llm_output')) =>
            /\ tool_runs' = tool_runs
            /\ in_progress' = 0
            /\ lstate' = "AWAITING_COMPLETION"
            /\ pc' = pc
            /\ Len(intermediate_steps') = Len(intermediate_steps) + 1
            /\ LET step == intermediate_steps'[Len(intermediate_steps')]
               IN  /\ step.log = TextOf(llm_output')
                   /\ Contains(step.observation,
                               <<llm_output'[ActionAt(llm_output')].val,
                                 "is not a valid tool, try one of">>)]_vars
    /\ [][(NamesUnknownTool(llm_output) /\ CompletionRequested) =>
            Contains(PromptText(last_prompt'),
                     <<llm_output[ActionAt(llm_output)].val,
                       "is not a valid tool, try one of">>)]_vars

C3_Witness ==
    /\ NamesUnknownTool(llm_output)
    /\ lstate = "AWAITING_COMPLETION"
    /\ Len(intermediate_steps) = 2
    /\ Contains(PromptText(last_prompt), <<NoSuchTool, "is not a valid tool, try one of">>)

(***************************************************************************)
(* C4  A completion that is neither an action nor a final answer does not  *)
(* end the loop with an error: the raw text is fed back as a corrective    *)
(* observation on the next iteration, at most until the iteration cap.     *)
(* Stated as the claim has it: the observation of the step is the raw      *)
(* text.  In the code the observation is the parser's message and the raw  *)
(* text is the step's log.                                                 *)
(***************************************************************************)
C4_RawTextIsTheObservation ==
    [][(CompletionRequested /\ MatchesNeither(llm_output')) =>
          /\ lstate' = "AWAITING_COMPLETION"
          /\ pc' = pc
          /\ iterations' <= max_iterations
          /\ Len(intermediate_steps') = Len(intermediate_steps) + 1
          /\ Contains(intermediate_steps'[Len(intermediate_steps')].observation,
                      TextOf(llm_output'))]_vars

(***************************************************************************)
(* C4 (amended)  A completion that is neither an action nor a final answer *)
(* does not end the loop with an error: the loop stays awaiting a          *)
(* completion, one step is appended whose log holds the raw text and whose *)
(* observation is a corrective message, the next prompt replays the raw    *)
(* text followed by that observation, and every such step counts against   *)
(* the iteration cap.                                                      *)
(***************************************************************************)
C4_ParseFailureIsFedBack ==
    /\ [][(CompletionRequested /\ MatchesNeither(llm_output')) =>
            /\ lstate' = "AWAITING_COMPLETION"
            /\ pc' = pc
            /\ iterations' = iterations + 1
            /\ iterations' <= max_iterations
            /\ Len(intermediate_steps') = Len(intermediate_steps) + 1
            /\ LET step == intermediate_steps'[Len(intermediate_steps')]
               IN  /\ Contains(step.log, TextOf(llm_output'))
                   /\ step.observation # <<>>
                   /\ ~Contains(step.observation, TextOf(llm_output'))]_vars
    /\ [][(MatchesNeither(llm_output) /\ CompletionRequested) =>
            LET step == intermediate_steps[Len(intermediate_steps)]
            IN  Contains(PromptText(last_prompt'),
                         TextOf(llm_output) \o <<"Observation:">> \o step.observation)]_vars

C4_Witness ==
    /\ MatchesNeither(llm_output)
    /\ lstate = "AWAITING_COMPLETION"
    /\ iterations = max_iterations
    /\ \A i \in DOMAIN intermediate_steps : intermediate_steps[i].tool = "_Exception"
    /\ Contains(PromptText(last_prompt), <<"Invalid or incomplete response">>)

(***************************************************************************)
(* C5  The loop moves only along AWAITING_COMPLETION -> EXECUTING_TOOL ->  *)
(* AWAITING_COMPLETION (one observation appended), AWAITING_COMPLETION ->  *)
(* DONE and AWAITING_COMPLETION -> FAILED; once DONE or FAILED, the run    *)
(* requests no completion and invokes no tool.                             *)
(* Stated as the claim has it; a raising tool takes EXECUTING_TOOL out of  *)
(* these states (see C2).                                                  *)
(***************************************************************************)
C5_OnlyListedTransitions ==
    [][/\ lstate' \in {"IDLE", "AWAITING_COMPLETION", "EXECUTING_TOOL", "DONE", "FAILED"}
       /\ (lstate' = "EXECUTING_TOOL" /\ lstate # "EXECUTING_TOOL") =>
             lstate = "AWAITING_COMPLETION"
       /\ (lstate = "EXECUTING_TOOL" /\ lstate' # "EXECUTING_TOOL") =>
             /\ lstate' = "AWAITING_COMPLETION"
             /\ Len(intermediate_steps') = Len(intermediate_steps) + 1
       /\ (lstate' \in {"DONE", "FAILED"} /\ lstate' # lstate) =>
             lstate = "AWAITING_COMPLETION"
       /\ (lstate \in {"DONE", "FAILED"} /\ task' = task) =>
             /\ lstate' = lstate
             /\ llm_calls' = llm_calls
             /\ tool_runs' = tool_runs]_vars

RECURSIVE ShowsInOrder(_, _)
\* the text shows the steps one after the other: each step's log, then its
\* observation
ShowsInOrder(text, steps) ==
    IF steps = <<>> THEN TRUE
    ELSE LET shown == Head(steps).log \o <<"Observation:">> \o Head(steps).observation
         IN  \E k \in 0 .. (Len(text) - Len(shown)) :
                /\ \A j \in 1 .. Len(shown) : text[k + j] = shown[j]
                /\ ShowsInOrder(SubSeq(text, k + Len(shown) + 1, Len(text)),
                                Tail(steps))

\* the prompt holds the script's instructions, every tool and the steps
PromptIsComplete(prompt, steps) ==
    /\ \A i \in DOMAIN instructions(script) :
          instructions(script)[i].kind = "lit" =>
             Contains(PromptText(prompt), <<instructions(script)[i].text>>)
    /\ \A i \in DOMAIN tools(script) :
          Contains(PromptText(prompt),
                   <<tools(script)[i] \o ":", Description(tools(script)[i])>>)
    /\ ShowsInOrder(PromptText(prompt), steps)

(***************************************************************************)
(* C6  Within one task run the step sequence only grows at its end, and    *)
(* every prompt rendered for a completion holds the script's fixed         *)
(* instructions, the name and description of every registered tool, and    *)
(* every step accumulated so far, in order.                                *)
(***************************************************************************)
C6_StepsAppendOnlyAndReplayed ==
    /\ [][task' = task => IsPrefix(intermediate_steps, intermediate_steps')]_vars
    /\ [][CompletionRequested => PromptIsComplete(last_prompt', intermediate_steps)]_vars

C6_Witness ==
    /\ llm_calls = 3
    /\ Len(intermediate_steps) = 3
    /\ intermediate_steps[1].tool # intermediate_steps[2].tool
    /\ PromptIsComplete(last_prompt, SubSeq(intermediate_steps, 1, 2))

(***************************************************************************)
(* C7  On a final-answer completion the run started by analyze_code ends   *)
(* successfully and the returned response holds the final text together    *)
(* with the complete ordered step sequence of the run.                     *)
(* Stated as the claim has it; the code returns the final text without     *)
(* the steps.                                                              *)
(***************************************************************************)
C7_ResponseCarriesFinalTextAndSteps ==
    (JustReturned /\ ViaAnalyzeCode /\ lstate = "DONE") =>
        /\ LastResponse.output = finish
        /\ "intermediate_steps" \in LastResponse.keys
        /\ LastResponse.intermediate_steps = intermediate_steps

(***************************************************************************)
(* C9  Tasks never overlap: the second run starts only after the first     *)
(* entry point has returned its result, and at most one tool call is in    *)
(* progress at any time.                                                   *)
(***************************************************************************)
C9_TasksNeverOverlap ==
    /\ in_progress \in {0, 1}
    /\ in_progress = 1 <=> lstate = "EXECUTING_TOOL"
    /\ IsPrefix(started, <<1, 2>>)
    /\ Len(responses) <= Len(started)
    /\ Len(started) <= Len(responses) + 1
    /\ Running => Len(started) = Len(responses) + 1
    /\ Len(started) = 2 =>
          /\ Len(responses) >= 1
          /\ responses[1].input = analysis_task(script)
          /\ responses[1].output # <<>>

C9_Witness ==
    /\ task = 2
    /\ lstate = "EXECUTING_TOOL"
    /\ Len(responses) = 1
    /\ in_progress = 1

\* the current call's request is out
HttpRequestIssued == h_pc \in {"sent", "returned", "raised"}

LastRequest == h_requests[Len(h_requests)]

\* str.lower(), character by character
Lower(str) ==
    [i \in DOMAIN str |->
        IF \E k \in DOMAIN UpperLetters : UpperLetters[k] = str[i]
        THEN LowerLetters[CHOOSE k \in DOMAIN UpperLetters : UpperLetters[k] = str[i]]
        ELSE str[i]]

IsPostIgnoringCase(method) == Lower(method) = <<"p", "o", "s", "t">>

(***************************************************************************)
(* C8  Every call of HttpTool._run issues exactly one outbound request, to *)
(* the URL the caller gave, with no retry after a failure; on a response   *)
(* it returns one text holding the response headers and then the body.     *)
(***************************************************************************)
C8_OneRequestHeadersThenBody ==
    /\ Len(h_requests) = IF h_pc = "called" THEN h_calls - 1 ELSE h_calls
    /\ HttpRequestIssued => LastRequest.url = h_args.url
    /\ h_pc = "raised" => h_result.raised /\ h_net.kind = "error"
    /\ h_pc = "returned" =>
          /\ ~h_result.raised
          /\ h_net.kind = "response"
          /\ \E i, j \in DOMAIN h_result.text :
                /\ i < j
                /\ h_result.text[i] = h_net.headers
                /\ h_result.text[j] = h_net.body
                /\ \A k \in DOMAIN h_result.text :
                      k \notin {i, j} => h_result.text[k] \in {"Headers:\n", "\n\nBody:\n"}

C8_Witness ==
    /\ h_pc = "returned"
    /\ h_calls = 2
    /\ Len(h_requests) = 2
    /\ h_requests[1].url # h_requests[2].url
    /\ h_net.body = "Hello, world!"

(***************************************************************************)
(* C10  HttpTool._run sends a POST carrying the supplied data exactly when *)
(* the method equals "POST" ignoring case; for any other method it sends a *)
(* GET to the URL and the data is not sent.                                *)
(***************************************************************************)
C10_PostIffMethodIsPost ==
    HttpRequestIssued =>
        /\ LastRequest.url = h_args.url
        /\ IF IsPostIgnoringCase(h_args.method)
           THEN /\ LastRequest.verb = "POST"
                /\ h_args.data # None => Contains(LastRequest.body, <<h_args.data>>)
                /\ h_args.data = None => LastRequest.body = <<>>
           ELSE /\ LastRequest.verb = "GET"
                /\ LastRequest.body = <<>>

C10_Witness ==
    /\ h_pc = "sent"
    /\ h_calls = 2
    /\ h_args.method = <<"P", "o", "s", "T">>
    /\ h_args.data # None
    /\ LastRequest.verb = "POST"
    /\ h_requests[1].verb = "GET"
    /\ h_requests[1].body = <<>>

\* how many runs of the loop the second entry point has started
RunsOfSecondCall == Cardinality({i \in DOMAIN started : started[i] = 2})

(***************************************************************************)
(* C11  analyze_code_with_langgraph runs the loop exactly once per call.   *)
(* With the graph, the node "agent" is entered once and leads to END, and  *)
(* the returned state has the call's input unchanged and, as output, the   *)
(* output the loop ended with for that input.  Without the graph library   *)
(* the call is analyze_code's, with the same input.                        *)
(***************************************************************************)
C11_LanggraphRunsLoopOnce ==
    /\ task < 2 => graph_visits = <<>> /\ RunsOfSecondCall = 0
    /\ task = 2 =>
          /\ RunsOfSecondCall = 1
          /\ run_input = analysis_task(script)
          /\ IF langgraph
             THEN /\ graph_visits = <<"agent">>
                  /\ pc \in {"agent_node", "exit", "crashed"}
                  /\ graph_state.input = analysis_task(script)
             ELSE /\ graph_visits = <<>>
                  /\ pc \in {"analyze_code", "exit", "crashed"}
    /\ (task = 2 /\ pc = "exit") =>
          /\ lstate \in {"DONE", "FAILED"}
          /\ Len(responses) = 2
          /\ LastResponse.input = analysis_task(script)
          /\ LastResponse.output = finish
          /\ finish # <<>>
          /\ IF langgraph
             THEN /\ LastResponse.keys = {"input", "output"}
                  /\ graph_state.output = finish
                  /\ add_edge(graph_visits[Len(graph_visits)]) = END
             ELSE LastResponse.keys = responses[1].keys

C11_Witness ==
    /\ task = 2
    /\ pc = "exit"
    /\ langgraph
    /\ lstate = "DONE"
    /\ Len(intermediate_steps) = 2
    /\ graph_visits = <<"agent">>
    /\ responses[2].output # responses[1].output

====
